---- MODULE Spec2Model ----
(***************************************************************************)
(* The compilation orchestrator of gobuild: GoBuild.CompileProgram,        *)
(* GoBuild.Cancel, compileSync, renameOutputFile and cleanupTempFile,      *)
(* together with the compiler process and the output directory they act    *)
(* on.  Jobs are numbered in the order in which their CompileProgram calls *)
(* acquire the lock.                                                       *)
(***************************************************************************)
EXTENDS Integers, Sequences, FiniteSets, TLC

\* ---------------------------------------------------------------- bounds
MaxCalls == 2      \* CompileProgram calls made against the instance
MaxArgs == 3       \* tokens the extra-args supplier returns

Jobs == 1..MaxCalls
Tokens == 1..MaxCalls    \* the distinct clock readings the jobs can take
NoJob == 0               \* h.active == nil; also the free lock
NoName == -1             \* comp.tempFile of a job not created yet
FinalPath == 0           \* path.Join(OutFolder, h.outFileName)
TempPath(t) == t         \* path.Join(OutFolder, tempFileName) for token t
Paths == {FinalPath} \cup {TempPath(t) : t \in Tokens}

\* A file of the output directory is identified by the write that last
\* modified it: the job whose process wrote it and whether that write
\* completed the output.  Each process performs each write once, so two files
\* are equal exactly when their content and modification time are equal
\* (os.Rename keeps both).
Absent == [by |-> 0, full |-> FALSE]
Written(j, f) == [by |-> j, full |-> f]

\* ------------------------------------------------------------- strings
\* A string is the sequence of its characters.

\* strings.HasPrefix(s, prefix)
HasPrefix(s, prefix) ==
    Len(s) >= Len(prefix) /\ SubSeq(s, 1, Len(prefix)) = prefix

\* strings.Contains(s, ch) for a one-character ch
Contains(s, ch) == \E i \in 1..Len(s) : s[i] = ch

\* strings.Join(elems, sep)
RECURSIVE Join(_, _)
Join(elems, sep) ==
    IF elems = <<>> THEN <<>>
    ELSE IF Len(elems) = 1 THEN elems[1]
    ELSE elems[1] \o sep \o Join(Tail(elems), sep)

\* path.Join(dir, name) for a non-empty plain name: an empty dir is skipped,
\* the elements are joined with "/", and the result is cleaned of a doubled
\* separator.
PathJoin(dir, name) ==
    IF dir = <<>> THEN name
    ELSE IF dir[Len(dir)] = "/" THEN dir \o name
    ELSE dir \o <<"/">> \o name

Build == <<"b", "u", "i", "l", "d">>
DashO == <<"-", "o">>
DashX == <<"-", "X">>
LdFlagsEq == <<"-", "l", "d", "f", "l", "a", "g", "s", "=">>
Space == <<" ">>
TempSuffix == <<"_", "t", "e", "m", "p">>
\* config.MainInputFileRelativePath
MainInput == <<"m", "a", "i", "n", ".", "g", "o">>

\* The tokens the extra-args supplier returns: the bare linker-symbol flag,
\* a key=value payload, the single-token linker-symbol form, an ordinary
\* flag, and a pass-through -ldflags of the caller's own.
ArgTokens ==
    { DashX,
      <<"k", "=", "v">>,
      <<"-", "X", " ", "a", "=", "b">>,
      <<"-", "v">>,
      LdFlagsEq \o <<"-", "s">> }
ArgSeqs == UNION {[1..n -> ArgTokens] : n \in 0..MaxArgs}

OutFolders == {<<>>, <<"o", "u", "t">>, <<"o", "u", "t", "/">>}
OutNames == {<<"a", "p", "p">>}
Extensions == {<<>>, <<".", "e", "x", "e">>}
DefaultTimeout == 5      \* New: 5 * time.Second
Timeouts == {0, 3}
Contents == {1, 2}       \* what a compiler process can write as its output
NoContent == 0

\* Mutation: an argument already passed through is not passed again.
PassThroughOnce(buildArgs, arg) ==
    IF \E i \in 1..Len(buildArgs) : buildArgs[i] = arg THEN buildArgs
    ELSE Append(buildArgs, arg)

\* `buildArgs = append(buildArgs, arg)`
PassThrough(buildArgs, arg) == Append(buildArgs, arg)

\* Mutation: the consolidated flag is appended whatever was found.
HasLdFlagsAlways(ldFlags) == TRUE

\* `if len(ldFlags) > 0`
HasLdFlags(ldFlags) == Len(ldFlags) > 0

\* Mutation: the token after a bare "-X" is taken only when it is a
\* key=value payload.
TakesNextKeyValue(args, i) ==
    args[i] = DashX /\ i + 1 <= Len(args) /\ Contains(args[i + 1], "=")

\* `arg == "-X" && i+1 < len(args)` (i counted from 1 here)
TakesNext(args, i) == args[i] = DashX /\ i + 1 <= Len(args)

\* The loop of buildArguments over args, from index i (1-based), with the
\* accumulators buildArgs and ldFlags.
RECURSIVE ScanArgs(_, _, _, _)
ScanArgs(args, i, buildArgs, ldFlags) ==
    IF i > Len(args) THEN [buildArgs |-> buildArgs, ldFlags |-> ldFlags]
    ELSE LET arg == args[i] IN
         IF HasPrefix(arg, DashX)
         THEN IF TakesNext(args, i)
              THEN ScanArgs(args, i + 2, buildArgs,
                            ldFlags \o <<arg, args[i + 1]>>)
              ELSE IF Contains(arg, "=")
              THEN ScanArgs(args, i + 1, buildArgs, Append(ldFlags, arg))
              ELSE ScanArgs(args, i + 1, buildArgs, Append(ldFlags, arg))
         ELSE ScanArgs(args, i + 1, PassThrough(buildArgs, arg), ldFlags)

\* h.buildArguments(tempFileName): hasSupplier is CompilingArguments != nil
\* and args the value its invocation returned.
buildArguments(hasSupplier, args, folder, tempFileName) ==
    LET scanned == IF hasSupplier THEN ScanArgs(args, 1, <<Build>>, <<>>)
                   ELSE [buildArgs |-> <<Build>>, ldFlags |-> <<>>]
        withLd == IF HasLdFlags(scanned.ldFlags)
                  THEN Append(scanned.buildArgs,
                              LdFlagsEq \o Join(scanned.ldFlags, Space))
                  ELSE scanned.buildArgs
    IN  withLd \o <<DashO, PathJoin(folder, tempFileName), MainInput>>

\* Mutation: New overwrites the Timeout with the default.
NewTimeoutAlwaysDefault(t) == DefaultTimeout

\* New: `if c.Timeout == 0 { c.Timeout = 5 * time.Second }`
NewTimeout(t) == IF t = 0 THEN DefaultTimeout ELSE t

\* New: outFileName: c.OutName + c.Extension
NewOutFileName(name, ext) == name \o ext

\* Mutation: the canonical temp name loses the extension.
NewOutTempFileNameBare(name, ext) == name \o TempSuffix

\* New: outTempFileName: c.OutName + "_temp" + c.Extension
NewOutTempFileName(name, ext) == name \o TempSuffix \o ext

\* fmt.Sprintf("%s_temp_%d%s", OutName, time.Now().UnixNano(), Extension)
\* as the string it is, for the clock reading t
TempFileString(name, t, ext) ==
    name \o TempSuffix \o <<"_">> \o <<ToString(t)>> \o ext

VARIABLES
    config,       \* Config: callback set?, Command kind, destination usable?
    mu,           \* h.mu: NoJob when free, else the job whose thread holds it
    active,       \* h.active: NoJob for nil, else the job recorded
    pc,           \* position of each job's thread in CompileProgram
    ctx,          \* each job's context: "live" or "done"
    proc,         \* each job's compiler process and how far it got
    tempFile,     \* comp.tempFile: the uniqueness token of the job
    result,       \* value returned by compileSync
    callerRet,    \* value returned by the CompileProgram call
    cbCount,      \* number of times config.Callback ran for the job
    cbArg,        \* the argument the callback received
    files,        \* the output directory: the file at each path
    now,          \* the last reading of time.Now().UnixNano(), 0 before any
    nTrig,        \* CompileProgram calls that have acquired the lock
    cancelRet,    \* value returned by the last Cancel call
    commits,      \* history: the renames that succeeded, in order: the job
                  \* and the state of its context when it renamed
    finalAtTrigger,   \* history: the final artifact when the job was created
    commitsAtTrigger, \* history: Len(commits) when the job was created
    endedRunning      \* history, kept in the behaviours of SpecTracked: what
                      \* ended the job's context while its process was
                      \* running: "cancel" (Cancel), "deadline", or "none";
                      \* "off" when no record is kept
VARIABLES
    outFolder,        \* config.OutFolderRelativePath
    outName,          \* config.OutName
    extension,        \* config.Extension
    outFileName,      \* h.outFileName
    outTempFileName,  \* h.outTempFileName
    cfgTimeout,       \* the Timeout of the Config handed to New
    timeout,          \* h.config.Timeout once New has returned
    argsSupplier,     \* config.CompilingArguments: the values an invocation
                      \* can return; {} for a nil supplier
    outputs,          \* the contents a compiler process can produce
    deadline,         \* the duration of each job's context.WithTimeout
    supplierCalls,    \* invocations of CompilingArguments made for the job
    supplied,         \* the value the job's invocation returned
    cmdArgs,          \* the arguments of the job's exec.CommandContext
    content,          \* the output the job's process produces, fixed by
                      \* what it reads when it starts
    startCount,       \* times the job's process was started
    builtArgs         \* result of the last BuildArguments() call

vars == <<config, mu, active, pc, ctx, proc, tempFile, result, callerRet,
          cbCount, cbArg, files, now, nTrig, cancelRet, commits,
          finalAtTrigger, commitsAtTrigger, endedRunning,
          outFolder, outName, extension, outFileName, outTempFileName,
          cfgTimeout, timeout, argsSupplier, outputs, deadline,
          supplierCalls, supplied, cmdArgs, content, startCount, builtArgs>>

\* the configuration and what New derives from it: no operation writes them
cfgVars == <<outFolder, outName, extension, outFileName, outTempFileName,
             cfgTimeout, timeout, argsSupplier, outputs>>

histVars == <<finalAtTrigger, commitsAtTrigger>>

Commands == {"compiler", "echo", "missing"}

\* New(c) with the Config c: what the instance holds once it is constructed,
\* no job having been created.
Configured(folder, name, ext, t, supplier, outs) ==
    /\ outFolder = folder
    /\ outName = name
    /\ extension = ext
    /\ outFileName = NewOutFileName(name, ext)
    /\ outTempFileName = NewOutTempFileName(name, ext)
    /\ cfgTimeout = t
    /\ timeout = NewTimeout(t)
    /\ argsSupplier = supplier
    /\ outputs = outs
    /\ deadline = [j \in Jobs |-> 0]
    /\ supplierCalls = [j \in Jobs |-> 0]
    /\ supplied = [j \in Jobs |-> <<>>]
    /\ cmdArgs = [j \in Jobs |-> <<>>]
    /\ content = [j \in Jobs |-> NoContent]
    /\ startCount = [j \in Jobs |-> 0]
    /\ builtArgs = <<>>

\* The plain configuration: output folder "out", name "app", no extension,
\* Timeout unset, no extra-args supplier, a compiler with one output.
DefaultConfigured ==
    Configured(<<"o", "u", "t">>, <<"a", "p", "p">>, <<>>, 0, {}, {1})

\* The instance before any call: no lock held, no job recorded, no job
\* created, an empty output directory.
InitJobs ==
    /\ config \in [callback : BOOLEAN, command : Commands, destOK : BOOLEAN]
    /\ mu = NoJob
    /\ active = NoJob
    /\ pc = [j \in Jobs |-> "idle"]
    /\ ctx = [j \in Jobs |-> "live"]
    /\ proc = [j \in Jobs |-> "none"]
    /\ tempFile = [j \in Jobs |-> NoName]
    /\ result = [j \in Jobs |-> "none"]
    /\ callerRet = [j \in Jobs |-> "none"]
    /\ cbCount = [j \in Jobs |-> 0]
    /\ cbArg = [j \in Jobs |-> "none"]
    /\ files = [p \in Paths |-> Absent]
    /\ now = 0
    /\ nTrig = 0
    /\ cancelRet = "none"
    /\ commits = <<>>
    /\ finalAtTrigger = [j \in Jobs |-> Absent]
    /\ commitsAtTrigger = [j \in Jobs |-> 0]

Init ==
    /\ InitJobs
    /\ endedRunning = [j \in Jobs |-> "off"]
    /\ DefaultConfigured

\* ------------------------------------------------------------- helpers

\* Mutation: the lock admits a thread while another one holds it.
LockFreeAlways(m) == TRUE

\* h.mu.Lock() returns only when no thread holds the lock.
LockFree(m) == m = NoJob

\* Mutation: the lock is not released.
UnlockSkipped(m) == m

\* h.mu.Unlock()
Unlock(m) == NoJob

\* Mutation: cancel() ends the context of the first job, whichever job is
\* recorded.
CancelCtxFirst(c, j) ==
    IF j # NoJob THEN [c EXCEPT ![1] = "done"] ELSE c

\* Mutation: cancel() does not end the context.
CancelCtxNoop(c, j) == c

\* Mutation: cancelling with no job recorded ends every job's context.
CancelCtxAll(c, j) ==
    IF j # NoJob THEN [c EXCEPT ![j] = "done"] ELSE [k \in Jobs |-> "done"]

\* The context's cancel function, invoked by h.active.cancel() or by the
\* deadline timer: the context of job j is done from then on.  Nothing in
\* the program reads which of the two ended it.
CancelCtx(c, j) ==
    IF j # NoJob THEN [c EXCEPT ![j] = "done"] ELSE c

Running == {"started", "partial"}

\* The record of what ended a job's context while its process was running:
\* kept once set, and set only when the context was live and the process
\* running at that moment.
EndedRunning(e, j, c, p, by) ==
    IF e[j] = "none" /\ c = "live" /\ p \in Running
    THEN [e EXCEPT ![j] = by] ELSE e

\* time.Now().UnixNano(): a reading is never below the previous one, and is
\* equal to it when less than the clock's resolution has elapsed.
ClockReadings(last) ==
    IF last = 0 THEN {1} ELSE {t \in Tokens : t = last \/ t = last + 1}

\* fmt.Sprintf("%s_temp_%d%s", OutName, time.Now().UnixNano(), Extension)
TempFileName(t) == t

\* Mutation: the clean-up empties the slot when it holds this job or a
\* newer one.
ClearedActiveNewer(a, j) == IF a >= j THEN NoJob ELSE a

\* Mutation: the clean-up empties the slot when it holds another job.
ClearedActiveOther(a, j) == IF a # j THEN NoJob ELSE a

\* Mutation: the clean-up empties the slot whichever job is recorded.
ClearedActiveAlways(a, j) == NoJob

\* `if h.active == comp { h.active = nil }`
ClearedActive(a, j) == IF a = j THEN NoJob ELSE a

\* Mutation: after a failed compileSync the job compiles again.
AfterCompileSyncRetry(callback) == "compile"

\* Mutation: the goroutine goes to its clean-up without calling the callback.
AfterCompileSyncNoCallback(callback) == "clear"

\* Where CompileProgram continues once compileSync has returned: the
\* goroutine calls the callback, the synchronous path goes on to its clean-up.
AfterCompileSync(callback) == IF callback THEN "deliver" ELSE "clear"

\* Mutation: cmd.Start() never fails.
StartFailsNever(c, command) == FALSE

\* cmd.Start() fails when the context is already done or the command is missing
StartFails(c, command) == c # "live" \/ command = "missing"

\* Mutation: a killed process is reported as a success.
WaitErrsKilledIsNil(p, c) == IF p = "exitErr" THEN {TRUE} ELSE {FALSE}

\* Mutation: the error of cmd.Wait() is dropped.
WaitErrsIgnoreStatus(p, c) == {FALSE}

\* Mutation: cmd.Wait() never returns.
WaitErrsNever(p, c) == {}

\* The error cmd.Wait() reports: nil for exit status 0; when the context
\* ended while the exited process was not yet reaped either outcome occurs.
WaitErrs(p, c) ==
    IF p = "exit0"
    THEN IF c = "live" THEN {FALSE} ELSE {FALSE, TRUE}
    ELSE {TRUE}

\* Mutation: os.Rename reports success whatever the source and destination.
RenameOKAlways(src, destOK) == TRUE

\* os.Rename(tempPath, finalPath) succeeds iff the source exists and the
\* destination can be replaced
RenameOK(src, destOK) == src # Absent /\ destOK

\* Mutation: a failed rename is reported under the build-stage tag.
RenameErrorAsBuild == "compileSync"

\* Mutation: a failed rename is not reported at all.
RenameErrorMissing == "none"

\* errors.Join(errors.New("renameOutputFile"), err): the error of a failed
\* rename, returned by compileSync as it is.
RenameError == "renameOutputFile"

\* Mutation: the rename reports success and moves nothing.
AfterRenameNothing(f, src) == f

\* Mutation: the temp artifact is copied over the final one and stays.
AfterRenameCopy(f, src) == [f EXCEPT ![FinalPath] = f[src]]

\* os.Rename(tempPath, finalPath): the final path takes the temp file, the
\* temp path is gone.
AfterRename(f, src) == [f EXCEPT ![FinalPath] = f[src], ![src] = Absent]

\* Mutation: the clean-up removes the final artifact instead of the temp file.
CleanupPathFinal(t) == FinalPath

\* The path cleanupTempFile(tempFileName) stats and removes.
CleanupPath(t) == TempPath(t)

\* Mutation: with a callback the call does not return when it has spawned
\* the goroutine.
ReturnedAtSpawnNever(callback, cr, j) == cr

\* `if h.config.Callback != nil { go func() {...}(); return nil }`: with a
\* callback the call returns nil as soon as the goroutine is spawned.
ReturnedAtSpawn(callback, cr, j) ==
    IF callback THEN [cr EXCEPT ![j] = "nil"] ELSE cr

\* Mutation: the synchronous call drops the error of compileSync.
SyncReturnNil(callback, cr, r, j) ==
    IF callback THEN cr ELSE [cr EXCEPT ![j] = "nil"]

\* `err := h.compileSync(ctx, comp); ...; return err`: without a callback
\* the call returns what its own compileSync returned, after the clean-up.
SyncReturn(callback, cr, r, j) ==
    IF callback THEN cr ELSE [cr EXCEPT ![j] = r[j]]

\* ------------------------------------------------------- CompileProgram

\* h.mu.Lock(); if h.active != nil { h.active.cancel(); h.active = nil }
CompileLock(j) ==
    /\ j = nTrig + 1
    /\ pc[j] = "idle"
    /\ LockFree(mu)
    /\ mu' = j
    /\ nTrig' = nTrig + 1
    /\ ctx' = CancelCtx(ctx, active)
    /\ active' = NoJob
    /\ pc' = [pc EXCEPT ![j] = "create"]
    /\ UNCHANGED <<config, proc, tempFile, result, callerRet, cbCount, cbArg,
                   files, now, cancelRet, commits, histVars,
                   endedRunning,
                   cfgVars, deadline, supplierCalls, supplied, cmdArgs, content,
                   startCount, builtArgs>>

\* context.WithTimeout; tempFileName; comp := &compilation{...};
\* h.active = comp; h.mu.Unlock(); and, with a callback, `go func` + return nil
CreateJob(j) ==
    /\ pc[j] = "create"
    /\ \E t \in ClockReadings(now) :
          /\ now' = t
          /\ tempFile' = [tempFile EXCEPT ![j] = TempFileName(t)]
    /\ active' = j
    /\ mu' = Unlock(mu)
    /\ callerRet' = ReturnedAtSpawn(config.callback, callerRet, j)
    /\ pc' = [pc EXCEPT ![j] = "compile"]
    /\ deadline' = [deadline EXCEPT ![j] = timeout]
    /\ finalAtTrigger' = [finalAtTrigger EXCEPT ![j] = files[FinalPath]]
    /\ commitsAtTrigger' = [commitsAtTrigger EXCEPT ![j] = Len(commits)]
    /\ UNCHANGED <<config, ctx, proc, result, cbCount, cbArg, files, nTrig,
                   cancelRet, commits, endedRunning,
                   cfgVars, supplierCalls, supplied, cmdArgs, content, startCount,
                   builtArgs>>

\* `if h.config.CompilingArguments != nil { args := ...CompilingArguments() }`:
\* the values one call of buildArguments can work on (none with a nil
\* supplier, which leaves args empty) and the invocations it makes.
SupplierReturns(supplier) == IF supplier = {} THEN {<<>>} ELSE supplier
SupplierInvocations(supplier) == IF supplier = {} THEN 0 ELSE 1

\* Mutation: a later job reuses the value the first job's invocation
\* returned.
ArgsOfFirstInvocation(args, earlier, j) == IF j > 1 THEN earlier[1] ELSE args

\* `args := h.config.CompilingArguments()`: the value the loop of this call
\* of buildArguments works on is the one its own invocation returned.
ArgsOfInvocation(args, earlier, j) == args

\* compileSync up to cmd.Start() inside CombinedOutput: buildArguments, then
\* exec.CommandContext and the start of the process
StartProcess(j) ==
    /\ pc[j] = "compile"
    /\ \E args \in SupplierReturns(argsSupplier) :
          /\ supplierCalls' = [supplierCalls EXCEPT
                                 ![j] = @ + SupplierInvocations(argsSupplier)]
          /\ supplied' = [supplied EXCEPT ![j] = args]
          /\ cmdArgs' = [cmdArgs EXCEPT ![j] =
                buildArguments(argsSupplier # {},
                               ArgsOfInvocation(args, supplied, j), outFolder,
                               TempFileString(outName, tempFile[j], extension))]
    /\ IF StartFails(ctx[j], config.command)
       THEN /\ pc' = [pc EXCEPT ![j] = "cleanupTemp"]
            /\ UNCHANGED <<proc, startCount, content>>
       ELSE /\ pc' = [pc EXCEPT ![j] = "wait"]
            /\ proc' = [proc EXCEPT ![j] = "started"]
            /\ startCount' = [startCount EXCEPT ![j] = @ + 1]
            /\ \E c \in outputs : content' = [content EXCEPT ![j] = c]
    /\ UNCHANGED <<config, mu, active, ctx, tempFile, result, callerRet,
                   cbCount, cbArg, files, now, nTrig, cancelRet, commits,
                   histVars,
                   endedRunning,
                   cfgVars, deadline, builtArgs>>


\* The compiler process starts writing its output to the -o path.
ProcWrite(j) ==
    /\ config.command = "compiler"
    /\ proc[j] = "started"
    /\ proc' = [proc EXCEPT ![j] = "partial"]
    /\ files' = [files EXCEPT ![TempPath(tempFile[j])] = Written(j, FALSE)]
    /\ UNCHANGED <<config, mu, active, pc, ctx, tempFile, result, callerRet,
                   cbCount, cbArg, now, nTrig, cancelRet, commits, histVars,
                   endedRunning,
                   cfgVars, deadline, supplierCalls, supplied, cmdArgs, content,
                   startCount, builtArgs>>

\* The compiler process completes its output and exits with status 0
\* (echo exits with status 0 and writes no file).
ProcSucceed(j) ==
    /\ \/ /\ config.command = "compiler" /\ proc[j] = "partial"
          /\ files' = [files EXCEPT ![TempPath(tempFile[j])] = Written(j, TRUE)]
       \/ /\ config.command = "echo" /\ proc[j] = "started"
          /\ files' = files
    /\ proc' = [proc EXCEPT ![j] = "exit0"]
    /\ UNCHANGED <<config, mu, active, pc, ctx, tempFile, result, callerRet,
                   cbCount, cbArg, now, nTrig, cancelRet, commits, histVars,
                   endedRunning,
                   cfgVars, deadline, supplierCalls, supplied, cmdArgs, content,
                   startCount, builtArgs>>

\* The compiler process reports a compile error: it exits with a non-zero
\* status, leaving whatever it had written.
ProcFail(j) ==
    /\ config.command = "compiler"
    /\ proc[j] \in Running
    /\ proc' = [proc EXCEPT ![j] = "exitErr"]
    /\ UNCHANGED <<config, mu, active, pc, ctx, tempFile, result, callerRet,
                   cbCount, cbArg, files, now, nTrig, cancelRet, commits,
                   histVars,
                   endedRunning,
                   cfgVars, deadline, supplierCalls, supplied, cmdArgs, content,
                   startCount, builtArgs>>

\* exec.CommandContext: the process is killed once its context is done.
ProcKill(j) ==
    /\ proc[j] \in Running
    /\ ctx[j] # "live"
    /\ proc' = [proc EXCEPT ![j] = "killed"]
    /\ UNCHANGED <<config, mu, active, pc, ctx, tempFile, result, callerRet,
                   cbCount, cbArg, files, now, nTrig, cancelRet, commits,
                   histVars,
                   endedRunning,
                   cfgVars, deadline, supplierCalls, supplied, cmdArgs, content,
                   startCount, builtArgs>>

\* output, err := comp.cmd.CombinedOutput(); if err != nil {...}
WaitReturn(j) ==
    /\ pc[j] = "wait"
    /\ proc[j] \in {"exit0", "exitErr", "killed"}
    /\ \E err \in WaitErrs(proc[j], ctx[j]) :
          pc' = [pc EXCEPT ![j] = IF err THEN "cleanupTemp" ELSE "rename"]
    /\ UNCHANGED <<config, mu, active, ctx, proc, tempFile, result, callerRet,
                   cbCount, cbArg, files, now, nTrig, cancelRet, commits,
                   histVars,
                   endedRunning,
                   cfgVars, deadline, supplierCalls, supplied, cmdArgs, content,
                   startCount, builtArgs>>

\* h.cleanupTempFile(comp.tempFile); return errors.Join(this, ...)
CleanupTemp(j) ==
    /\ pc[j] = "cleanupTemp"
    /\ files' = [files EXCEPT ![CleanupPath(tempFile[j])] = Absent]
    /\ result' = [result EXCEPT ![j] = "compileSync"]
    /\ pc' = [pc EXCEPT ![j] = AfterCompileSync(config.callback)]
    /\ UNCHANGED <<config, mu, active, ctx, proc, tempFile, callerRet,
                   cbCount, cbArg, now, nTrig, cancelRet, commits, histVars,
                   endedRunning,
                   cfgVars, deadline, supplierCalls, supplied, cmdArgs, content,
                   startCount, builtArgs>>

\* return h.renameOutputFile(comp.tempFile)
RenameOutput(j) ==
    /\ pc[j] = "rename"
    /\ IF RenameOK(files[TempPath(tempFile[j])], config.destOK)
       THEN /\ files' = AfterRename(files, TempPath(tempFile[j]))
            /\ commits' = Append(commits, [job |-> j, ctx |-> ctx[j]])
            /\ result' = [result EXCEPT ![j] = "nil"]
       ELSE /\ UNCHANGED <<files, commits>>
            /\ result' = [result EXCEPT ![j] = RenameError]
    /\ pc' = [pc EXCEPT ![j] = AfterCompileSync(config.callback)]
    /\ UNCHANGED <<config, mu, active, ctx, proc, tempFile, callerRet,
                   cbCount, cbArg, now, nTrig, cancelRet, histVars,
                   endedRunning,
                   cfgVars, deadline, supplierCalls, supplied, cmdArgs, content,
                   startCount, builtArgs>>

\* h.config.Callback(err) in the goroutine
Deliver(j) ==
    /\ pc[j] = "deliver"
    /\ cbCount' = [cbCount EXCEPT ![j] = @ + 1]
    /\ cbArg' = [cbArg EXCEPT ![j] = result[j]]
    /\ pc' = [pc EXCEPT ![j] = "clear"]
    /\ UNCHANGED <<config, mu, active, ctx, proc, tempFile, result, callerRet,
                   files, now, nTrig, cancelRet, commits, histVars,
                   endedRunning,
                   cfgVars, deadline, supplierCalls, supplied, cmdArgs, content,
                   startCount, builtArgs>>

\* h.mu.Lock(); if h.active == comp { h.active = nil }; h.mu.Unlock();
\* return err
ClearActive(j) ==
    /\ pc[j] = "clear"
    /\ LockFree(mu)
    /\ active' = ClearedActive(active, j)
    /\ callerRet' = SyncReturn(config.callback, callerRet, result, j)
    /\ pc' = [pc EXCEPT ![j] = "done"]
    /\ UNCHANGED <<config, mu, ctx, proc, tempFile, result, cbCount, cbArg,
                   files, now, nTrig, cancelRet, commits, histVars,
                   endedRunning,
                   cfgVars, deadline, supplierCalls, supplied, cmdArgs, content,
                   startCount, builtArgs>>

\* The timer of context.WithTimeout fires while compileSync runs.
DeadlineExpire(j) ==
    /\ pc[j] \in {"compile", "wait"}
    /\ ctx[j] = "live"
    /\ ctx' = CancelCtx(ctx, j)
    /\ endedRunning' = EndedRunning(endedRunning, j, ctx[j], proc[j], "deadline")
    /\ UNCHANGED <<config, mu, active, pc, proc, tempFile, result, callerRet,
                   cbCount, cbArg, files, now, nTrig, cancelRet, commits,
                   histVars,
                   cfgVars, deadline, supplierCalls, supplied, cmdArgs, content,
                   startCount, builtArgs>>

\* --------------------------------------------------------------- Cancel

\* h.mu.Lock(); defer h.mu.Unlock();
\* if h.active != nil { h.active.cancel(); h.active = nil }; return nil
Cancel ==
    /\ LockFree(mu)
    /\ ctx' = CancelCtx(ctx, active)
    /\ active' = NoJob
    /\ cancelRet' = "nil"
    /\ endedRunning' =
          IF active = NoJob THEN endedRunning
          ELSE EndedRunning(endedRunning, active, ctx[active], proc[active],
                            "cancel")
    /\ UNCHANGED <<config, mu, pc, proc, tempFile, result, callerRet,
                   cbCount, cbArg, files, now, nTrig, commits, histVars,
                   cfgVars, deadline, supplierCalls, supplied, cmdArgs, content,
                   startCount, builtArgs>>

Next ==
    \/ \E j \in Jobs : CompileLock(j)
    \/ \E j \in Jobs : CreateJob(j)
    \/ \E j \in Jobs : StartProcess(j)
    \/ \E j \in Jobs : ProcWrite(j)
    \/ \E j \in Jobs : ProcSucceed(j)
    \/ \E j \in Jobs : ProcFail(j)
    \/ \E j \in Jobs : ProcKill(j)
    \/ \E j \in Jobs : WaitReturn(j)
    \/ \E j \in Jobs : CleanupTemp(j)
    \/ \E j \in Jobs : RenameOutput(j)
    \/ \E j \in Jobs : Deliver(j)
    \/ \E j \in Jobs : ClearActive(j)
    \/ \E j \in Jobs : DeadlineExpire(j)
    \/ Cancel

Spec == Init /\ [][Next]_vars

\* The steps of the thread (the caller, or the goroutine) that runs job j
\* once its call holds the lock.
JobStep(j) ==
    \/ CreateJob(j)
    \/ StartProcess(j)
    \/ WaitReturn(j)
    \/ CleanupTemp(j)
    \/ RenameOutput(j)
    \/ Deliver(j)
    \/ ClearActive(j)

\* Scheduling: a thread that can take a step eventually takes it, the timer
\* of a running job eventually fires, and a process whose context is done is
\* eventually killed.  The calls themselves and the progress of a compiler
\* process are under no obligation.
Fairness ==
    \A j \in Jobs :
        /\ WF_vars(JobStep(j))
        /\ WF_vars(DeadlineExpire(j))
        /\ WF_vars(ProcKill(j))

FairSpec == Spec /\ Fairness

\* The same program, observed with the record of what ended each context.
InitTracked ==
    /\ InitJobs
    /\ endedRunning = [j \in Jobs |-> "none"]
    /\ DefaultConfigured

SpecTracked == InitTracked /\ [][Next]_vars

\* The same program under other configurations, one setting varied at a
\* time: the extension, the Timeout, an extra-args supplier whose value
\* changes from one invocation to the next, a compiler whose output changes.
VariedSuppliers ==
    { {<<<<"-", "v">>>>},
      {<<<<"-", "v">>>>, <<DashX, <<"k", "=", "v">>>>} }

InitVaried ==
    /\ InitJobs
    /\ endedRunning = [j \in Jobs |-> "off"]
    /\ \/ \E ext \in Extensions :
             Configured(<<"o", "u", "t">>, <<"a", "p", "p">>, ext, 0, {}, {1})
       \/ \E t \in Timeouts :
             Configured(<<"o", "u", "t">>, <<"a", "p", "p">>, <<>>, t, {}, {1})
       \/ \E supplier \in VariedSuppliers :
             Configured(<<"o", "u", "t">>, <<"a", "p", "p">>, <<>>, 0,
                        supplier, {1})
       \/ Configured(<<"o", "u", "t">>, <<"a", "p", "p">>, <<>>, 0, {},
                     Contents)

SpecVaried == InitVaried /\ [][Next]_vars

\* The caller that never triggers while a job is unfinished: each
\* CompileProgram call is made after every earlier job has finished.
CompileLockSequential(j) ==
    /\ \A k \in Jobs \ {j} : pc[k] \in {"idle", "done"}
    /\ CompileLock(j)

InitSequential ==
    /\ InitJobs
    /\ endedRunning = [j \in Jobs |-> "off"]
    /\ Configured(<<"o", "u", "t">>, <<"a", "p", "p">>, <<>>, 0, {}, Contents)

NextSequential ==
    \/ \E j \in Jobs : CompileLockSequential(j)
    \/ \E j \in Jobs : CreateJob(j)
    \/ \E j \in Jobs : StartProcess(j)
    \/ \E j \in Jobs : ProcWrite(j)
    \/ \E j \in Jobs : ProcSucceed(j)
    \/ \E j \in Jobs : ProcFail(j)
    \/ \E j \in Jobs : ProcKill(j)
    \/ \E j \in Jobs : WaitReturn(j)
    \/ \E j \in Jobs : CleanupTemp(j)
    \/ \E j \in Jobs : RenameOutput(j)
    \/ \E j \in Jobs : Deliver(j)
    \/ \E j \in Jobs : ClearActive(j)
    \/ \E j \in Jobs : DeadlineExpire(j)
    \/ Cancel

SpecSequential == InitSequential /\ [][NextSequential]_vars

\* The program driven from its callback: after the first call, CompileProgram
\* and Cancel are called by the callback of some job while it runs, that is,
\* between the return of that job's compileSync and the return of its
\* callback.
CallbackRunning(j) == config.callback /\ pc[j] = "deliver"

CompileLockInCallback(k) ==
    /\ k = 1 \/ \E j \in Jobs : CallbackRunning(j)
    /\ CompileLock(k)

CancelInCallback ==
    /\ \E j \in Jobs : CallbackRunning(j)
    /\ Cancel

InitReentrant ==
    /\ InitJobs
    /\ config.callback
    /\ endedRunning = [j \in Jobs |-> "off"]
    /\ DefaultConfigured

NextReentrant ==
    \/ \E j \in Jobs : CompileLockInCallback(j)
    \/ \E j \in Jobs : CreateJob(j)
    \/ \E j \in Jobs : StartProcess(j)
    \/ \E j \in Jobs : ProcWrite(j)
    \/ \E j \in Jobs : ProcSucceed(j)
    \/ \E j \in Jobs : ProcFail(j)
    \/ \E j \in Jobs : ProcKill(j)
    \/ \E j \in Jobs : WaitReturn(j)
    \/ \E j \in Jobs : CleanupTemp(j)
    \/ \E j \in Jobs : RenameOutput(j)
    \/ \E j \in Jobs : Deliver(j)
    \/ \E j \in Jobs : ClearActive(j)
    \/ \E j \in Jobs : DeadlineExpire(j)
    \/ CancelInCallback

SpecReentrant == InitReentrant /\ [][NextReentrant]_vars

\* ------------------------------------------------------ BuildArguments

\* BuildArguments(): `return h.buildArguments(h.outTempFileName)`
BuildArgumentsCall ==
    /\ \E args \in SupplierReturns(argsSupplier) :
          builtArgs' = buildArguments(argsSupplier # {}, args, outFolder,
                                      outTempFileName)
    /\ UNCHANGED <<config, mu, active, pc, ctx, proc, tempFile, result,
                   callerRet, cbCount, cbArg, files, now, nTrig, cancelRet,
                   commits, histVars, endedRunning, cfgVars, deadline,
                   supplierCalls, supplied, cmdArgs, content, startCount>>

\* The argument builder on its own: an instance whose supplier returns one
\* given sequence (or is nil), in each output folder.
InitArgs ==
    /\ InitJobs
    /\ config = [callback |-> FALSE, command |-> "compiler", destOK |-> TRUE]
    /\ endedRunning = [j \in Jobs |-> "off"]
    /\ \E folder \in OutFolders, ext \in Extensions,
          supplier \in {{}} \cup {{args} : args \in ArgSeqs} :
             Configured(folder, <<"a", "p", "p">>, ext, 0, supplier, {1})

NextArgs == BuildArgumentsCall

ArgsSpec == InitArgs /\ [][NextArgs]_vars

\* ------------------------------------------------------------ vocabulary

Created(j) == pc[j] \notin {"idle", "create"}
Terminal(j) == pc[j] = "done"
AllTerminal == \A j \in Jobs : Terminal(j)
Errors == {"compileSync", "renameOutputFile"}
FinalFile == files[FinalPath]
TempFilesLeft == {t \in Tokens : files[TempPath(t)] # Absent}
Committed(j) == \E i \in 1..Len(commits) : commits[i].job = j
\* what the job handed to its caller: the callback's argument, or the
\* return value of the synchronous call
Delivered(j) == IF config.callback THEN cbArg[j] ELSE callerRet[j]
\* the bytes of a file: what the process that wrote it produces, and whether
\* it wrote all of it
FileContent(f) ==
    IF f = Absent THEN [data |-> NoContent, full |-> FALSE]
    ELSE [data |-> content[f.by], full |-> f.full]
\* BuildArguments() has been called and has returned
Called == builtArgs # <<>>
\* the value the supplier of an instance returns when it returns one value
SuppliedArgs ==
    IF argsSupplier = {} THEN <<>> ELSE CHOOSE args \in argsSupplier : TRUE
\* The two input shapes of a linker-symbol flag: position i holds the second
\* token of the two-token form when the token before it is a bare "-X" that
\* is not itself such a second token; it holds a linker-symbol entry when it
\* is such a second token or starts with "-X".
RECURSIVE IsPayload(_, _)
IsPayload(args, i) ==
    i > 1 /\ args[i - 1] = DashX /\ ~IsPayload(args, i - 1)
IsLinkerEntry(args, i) == IsPayload(args, i) \/ HasPrefix(args[i], DashX)
\* the tokens of args at the positions of set P, in their order
RECURSIVE TokensAt(_, _, _)
TokensAt(args, P, i) ==
    IF i > Len(args) THEN <<>>
    ELSE (IF i \in P THEN <<args[i]>> ELSE <<>>) \o TokensAt(args, P, i + 1)
LinkerEntries(args) ==
    TokensAt(args, {i \in 1..Len(args) : IsLinkerEntry(args, i)}, 1)
NonLinkerTokens(args) ==
    TokensAt(args, {i \in 1..Len(args) : ~IsLinkerEntry(args, i)}, 1)
\* the positions of a command that hold a token starting with "-ldflags="
LdFlagsAt(cmd) == {i \in 1..Len(cmd) : HasPrefix(cmd[i], LdFlagsEq)}
\* the last three tokens of every command: -o, the temp path, the entry point
OutputTail(tempFileName) ==
    <<DashO, PathJoin(outFolder, tempFileName), MainInput>>
\* the command the argument rules give for args and a temp name
CommandOf(args, tempFileName) ==
    <<Build>> \o NonLinkerTokens(args)
    \o (IF LinkerEntries(args) # <<>>
        THEN <<LdFlagsEq \o Join(LinkerEntries(args), Space)>>
        ELSE <<>>)
    \o OutputTail(tempFileName)
\* compileSync of job j has called buildArguments
ArgsBuilt(j) == pc[j] \notin {"idle", "create", "compile"}
\* UnobservedFiles(): []string{h.outFileName, h.outTempFileName}
UnobservedFiles == <<outFileName, outTempFileName>>
\* compileSync of job j is between buildArguments and its return: starting
\* or awaiting the process, deleting or renaming the temp artifact
InCompileSync(j) == pc[j] \in {"compile", "wait", "cleanupTemp", "rename"}
\* The state of job j in the life cycle of a compilation: Created once its
\* record exists, Running while compileSync works on it, and then by what
\* compileSync returned: Completed for nil; for an error, Cancelled when the
\* process was killed or refused to start because the context was done,
\* Failed when the process or the rename failed by itself.
JobState(j) ==
    IF ~Created(j) THEN "NotCreated"
    ELSE IF result[j] = "none"
         THEN (IF pc[j] = "compile" THEN "Created" ELSE "Running")
    ELSE IF result[j] = "nil" THEN "Completed"
    ELSE IF proc[j] = "killed" THEN "Cancelled"
    ELSE IF proc[j] = "none" /\ config.command # "missing" THEN "Cancelled"
    ELSE "Failed"
TerminalStates == {"Completed", "Failed", "Cancelled"}
\* IsCompiling(): h.active != nil
IsCompiling == active # NoJob
\* the command whose diverted tokens are those of args at the positions of
\* D, the others being passed through
CommandDiverting(args, D, tempFileName) ==
    <<Build>> \o TokensAt(args, (1..Len(args)) \ D, 1)
    \o (IF D # {}
        THEN <<LdFlagsEq \o Join(TokensAt(args, D, 1), Space)>>
        ELSE <<>>)
    \o OutputTail(tempFileName)
\* the job triggered last
LatestJob(j) == Created(j) /\ \A k \in Jobs : k > j => pc[k] = "idle"

TypeOK ==
    /\ mu \in 0..MaxCalls
    /\ active \in 0..MaxCalls
    /\ now \in 0..MaxCalls
    /\ \A j \in Jobs : Created(j) => tempFile[j] \in Tokens

\* ---------------------------------------------------------------- claims

\* C1: a job that ended with an error has not modified the final artifact:
\* as long as no job has committed since it was created, the final artifact
\* (content and modification time) is the one it found when it was created.
C1_FailedJobLeavesFinal ==
    \A j \in Jobs :
        (result[j] \in Errors /\ Len(commits) = commitsAtTrigger[j])
            => FinalFile = finalAtTrigger[j]

\* A job created over an existing artifact has failed (compile error, kill,
\* or failed start) and is terminal, with no commit since its creation.
C1_Witness ==
    \E j \in Jobs :
        /\ Terminal(j)
        /\ result[j] = "compileSync"
        /\ finalAtTrigger[j] # Absent
        /\ Len(commits) = commitsAtTrigger[j]

\* C2: the final artifact, when it exists, is the complete output of the
\* job that committed last, and that job was neither failed nor cancelled
\* (its context was not done) when it committed.
C2_FinalFromLatestSuccess ==
    FinalFile # Absent =>
        /\ commits # <<>>
        /\ FinalFile = Written(commits[Len(commits)].job, TRUE)
        /\ commits[Len(commits)].ctx = "live"

\* C3: the final artifact only ever holds what a commit put there: the
\* complete output of a job that committed and whose process exited with
\* status 0; partial output is never visible at the final path.
C3_FinalOnlyByCommit ==
    FinalFile # Absent =>
        /\ FinalFile.full
        /\ Committed(FinalFile.by)
        /\ proc[FinalFile.by] = "exit0"

\* C4: each CompileProgram call, in one critical section, invokes the cancel
\* function of the job recorded as active and records its own job: the lock
\* is held from the cancellation to the recording, nothing else touches
\* h.active in between, and the new job then starts its process whatever the
\* superseded job is doing.
C4_SupersedeInOneCriticalSection ==
    [][ \A j \in Jobs :
          /\ (pc[j] = "idle" /\ pc'[j] # "idle") =>
                /\ mu' = j
                /\ active # NoJob => ctx'[active] = "done"
          /\ pc'[j] = "create" => (mu' = j /\ active' = NoJob)
          /\ (pc[j] = "create" /\ pc'[j] # "create") =>
                (active' = j /\ mu' = NoJob /\ pc'[j] = "compile")
          /\ pc[j] = "compile" => ENABLED StartProcess(j)
      ]_vars

\* The second job is recorded as active and waits on its own process while
\* the process of the job it superseded is still running.
C4_Witness ==
    /\ active = 2
    /\ pc[2] = "wait"
    /\ proc[1] \in Running
    /\ ctx[1] = "done"

C6_ConcurrentTriggersSucceed ==
    ( /\ AllTerminal
      /\ config.command = "compiler"
      /\ config.destOK
      /\ cancelRet = "none"
      /\ ctx[MaxCalls] = "live"
      /\ \A j \in Jobs : proc[j] # "exitErr" )
    => /\ \E j \in Jobs : result[j] = "nil"
       /\ FinalFile # Absent
       /\ TempFilesLeft = {}

\* C7: no two jobs of the instance have the same temp-artifact name.
C7_UniqueTempNames ==
    \A j, k \in Jobs :
        (j # k /\ Created(j) /\ Created(k)) => tempFile[j] # tempFile[k]

\* C8: a terminal job has left no file at its temp path, and once all jobs
\* are terminal no temp artifact exists in the output directory, whatever the
\* outcomes.
C8_NoTempLeft ==
    /\ \A j \in Jobs : Terminal(j) => files[TempPath(tempFile[j])] = Absent
    /\ AllTerminal => TempFilesLeft = {}

\* C9: with a callback configured, the callback runs exactly once per job:
\* never twice, never before compileSync has returned, and a terminal job
\* has had its one invocation.
C9_CallbackExactlyOnce ==
    config.callback =>
        \A j \in Jobs :
            /\ cbCount[j] <= 1
            /\ Terminal(j) => cbCount[j] = 1
            /\ cbCount[j] = 1 => (pc[j] \in {"clear", "done"} /\ cbArg[j] = result[j])

\* All jobs are terminal, one of them killed after being superseded or
\* cancelled, and each had its callback.
C9_Witness ==
    /\ config.callback
    /\ AllTerminal
    /\ \E j \in Jobs : proc[j] = "killed"
    /\ \A j \in Jobs : cbCount[j] = 1

\* C10: the result a job delivers is nil exactly when its process exited
\* with status 0 and its temp artifact was renamed onto the final path.
C10_NilIffCommitted ==
    \A j \in Jobs :
        Delivered(j) # "none" =>
            (Delivered(j) = "nil" <=> (proc[j] = "exit0" /\ Committed(j)))

\* One job delivered nil, and another delivered an error although its
\* process exited with status 0.
C10_Witness ==
    \E j, k \in Jobs :
        /\ Delivered(j) = "nil"
        /\ Delivered(k) \in Errors
        /\ proc[k] = "exit0"

\* C11: without a callback, a CompileProgram call has returned only when the
\* job it created is terminal (its process is not running, compileSync has
\* returned, the job committed or failed), and the value it returned is the
\* result of that same job.
C11_SyncReturnsOwnResult ==
    ~config.callback =>
        \A j \in Jobs :
            /\ callerRet[j] # "none" =>
                  /\ Terminal(j)
                  /\ proc[j] \notin Running
                  /\ callerRet[j] = result[j]
                  /\ result[j] \in Errors \cup {"nil"}
                  /\ result[j] = "nil" <=> Committed(j)
            /\ Terminal(j) => callerRet[j] # "none"

\* Two synchronous calls have returned, one with nil and one with an error,
\* each the result of its own job.
C11_Witness ==
    /\ ~config.callback
    /\ \E j, k \in Jobs :
          /\ callerRet[j] = "nil" /\ Committed(j)
          /\ callerRet[k] = "compileSync" /\ ~Committed(k)

\* C12: with a callback, CompileProgram returns nil as soon as the job is
\* created, before the process is started, and that return value never
\* changes whatever the job's outcome; the outcome reaches the caller only
\* as the callback's argument.
C12_AsyncReturnsNilAtOnce ==
    config.callback =>
        \A j \in Jobs :
            /\ Created(j) <=> callerRet[j] = "nil"
            /\ callerRet[j] \in {"none", "nil"}
            /\ (pc[j] = "compile" /\ callerRet[j] = "nil") => proc[j] = "none"
            /\ cbArg[j] # "none" => cbArg[j] = result[j]

\* With a command that cannot be started, the first call returned nil and
\* its callback received the error; the second call has returned nil while
\* its process is not started yet.
C12_Witness ==
    /\ config.callback
    /\ config.command = "missing"
    /\ callerRet[1] = "nil" /\ cbArg[1] = "compileSync"
    /\ callerRet[2] = "nil" /\ pc[2] = "compile"

\* C13: Cancel returns nil in every state (it can run whenever the lock is
\* free and never returns anything else), and when no job is recorded as
\* active it leaves the active slot empty and changes no context, no job, no
\* process and no file: neither the final artifact nor any temp artifact.
C13_CancelNilAndNoop ==
    /\ [](cancelRet \in {"none", "nil"} /\ (mu = NoJob => ENABLED Cancel))
    /\ [][ Cancel =>
            /\ cancelRet' = "nil"
            /\ active = NoJob =>
                  /\ active' = NoJob
                  /\ UNCHANGED <<files, ctx, pc, proc, result, commits>>
       ]_vars

\* Cancel has been called and never found a job to cancel (no context was
\* ended), and the jobs have finished with the final artifact in place.
C13_Witness ==
    /\ cancelRet = "nil"
    /\ active = NoJob
    /\ AllTerminal
    /\ FinalFile # Absent
    /\ \A j \in Jobs : ctx[j] = "live"

\* C14: a job whose process was running when Cancel cancelled it ends
\* failed: its result is never nil, it never commits (the final artifact is
\* not changed by it), once it is terminal no file is left at its temp path,
\* and the next CompileProgram call can take the lock as soon as it is free.
C14_CancelledRunningJobFails ==
    \A j \in Jobs :
        endedRunning[j] = "cancel" =>
            /\ result[j] # "nil"
            /\ ~Committed(j)
            /\ Terminal(j) => files[TempPath(tempFile[j])] = Absent
            /\ (j < MaxCalls /\ nTrig = j /\ mu = NoJob)
                  => ENABLED CompileLock(j + 1)

\* C15 as stated, in its most favourable case (Cancel never called, the lock
\* free): IsCompiling (a job is recorded as active) is true exactly when some
\* job that was created has not reached its terminal state.
C15_IsCompilingIffJobUnfinished ==
    (cancelRet = "none" /\ mu = NoJob) =>
        (active # NoJob <=> \E j \in Jobs : Created(j) /\ ~Terminal(j))

\* C15, amended: IsCompiling is true only while the job of the latest call
\* has not reached its terminal state, and it is true whenever that job is
\* unfinished and its context has not been ended; it is false once every job
\* has finished, and for a job that was superseded or cancelled it is false
\* even while that job's process is still running.
C15_IsCompilingIffLatestLive ==
    /\ active # NoJob =>
          (active = nTrig /\ Created(active) /\ ~Terminal(active))
    /\ \A j \in Jobs :
          (mu = NoJob /\ j = nTrig /\ Created(j) /\ ~Terminal(j)
              /\ ctx[j] = "live") => active = j
    /\ \A j \in Jobs :
          (mu = NoJob /\ Created(j) /\ ~Terminal(j) /\ j < nTrig)
              => active # j

\* The latest job is recorded as active while the job it superseded has
\* already finished.
C15_Witness ==
    /\ active = 2
    /\ Terminal(1)
    /\ ctx[1] = "done"
    /\ proc[2] \in Running

\* C16: the deadline of a job ends the context of that job only, and a job
\* whose process was running when its deadline expired ends like a cancelled
\* one: its result is never nil, it never commits, and once it is terminal
\* no file is left at its temp path and, no other job having committed since
\* it was created, the final artifact is the one it found.
C16_ExpiredRunningJobFails ==
    \A j \in Jobs :
        endedRunning[j] = "deadline" =>
            /\ ctx[j] = "done"
            /\ result[j] # "nil"
            /\ ~Committed(j)
            /\ Terminal(j) =>
                  /\ files[TempPath(tempFile[j])] = Absent
                  /\ Len(commits) = commitsAtTrigger[j]
                        => FinalFile = finalAtTrigger[j]

\* C17: under fair scheduling every job whose call has taken the lock
\* reaches its terminal state: a synchronous call returns, the callback of an
\* asynchronous job is invoked, and, the calls being finitely many, from
\* some point on no job is recorded as active (IsCompiling stays false).
C17_EveryJobTerminates ==
    /\ \A j \in Jobs : (pc[j] # "idle") ~> Terminal(j)
    /\ \A j \in Jobs :
          (pc[j] # "idle" /\ ~config.callback) ~> (callerRet[j] # "none")
    /\ \A j \in Jobs :
          (pc[j] # "idle" /\ config.callback) ~> (cbCount[j] = 1)
    /\ <>[](active = NoJob)

\* Every synchronous call has returned, one of the jobs after its process
\* was killed, and no job is recorded as active.
C17_Witness ==
    /\ ~config.callback
    /\ AllTerminal
    /\ active = NoJob
    /\ \A j \in Jobs : callerRet[j] # "none"
    /\ \E j \in Jobs : proc[j] = "killed"

\* C18: with a command that cannot be started no process ever runs, no file
\* is ever created and nothing is committed; and any job whose process could
\* not be started ends with the build error, which is what its caller or
\* callback receives, has written no file, has not committed, and has left
\* the final artifact as it found it when no other job committed meanwhile.
C18_StartFailureTouchesNothing ==
    /\ config.command = "missing" =>
          /\ \A j \in Jobs : proc[j] = "none"
          /\ \A p \in Paths : files[p] = Absent
          /\ commits = <<>>
    /\ \A j \in Jobs :
          (proc[j] = "none" /\ pc[j] \in {"cleanupTemp", "deliver", "clear", "done"})
          => /\ pc[j] # "cleanupTemp" => result[j] = "compileSync"
             /\ Delivered(j) \in {"none", "compileSync"}
             /\ Terminal(j) => Delivered(j) = "compileSync"
             /\ ~Committed(j)
             /\ \A p \in Paths : files[p] = Absent \/ files[p].by # j
             /\ Len(commits) = commitsAtTrigger[j]
                   => FinalFile = finalAtTrigger[j]

\* With a nonexistent executable every job has finished and reported the
\* build error.
C18_Witness ==
    /\ config.command = "missing"
    /\ AllTerminal
    /\ \A j \in Jobs : Delivered(j) = "compileSync"

\* C19: the commit step (renameOutputFile) returns its error when the temp
\* artifact is missing or the destination cannot be written, and then no
\* file changes: the final artifact is exactly as it was; otherwise it
\* returns nil, the final path holds what the temp path held, the temp path
\* no longer exists and no other file changes.
C19_CommitAllOrNothing ==
    [][ \A j \in Jobs :
          (pc[j] = "rename" /\ pc'[j] # "rename") =>
             LET tempPath == TempPath(tempFile[j])
                 src == files[tempPath]
             IN  IF src = Absent \/ ~config.destOK
                 THEN /\ result'[j] = "renameOutputFile"
                      /\ files' = files
                      /\ commits' = commits
                 ELSE /\ result'[j] = "nil"
                      /\ files'[FinalPath] = src
                      /\ files'[tempPath] = Absent
                      /\ \A p \in Paths \ {FinalPath, tempPath} :
                            files'[p] = files[p]
      ]_vars

\* One commit succeeded and a later one failed for want of its temp
\* artifact, leaving the committed final artifact in place.
C19_Witness ==
    \E j, k \in Jobs :
        /\ result[j] = "nil"
        /\ result[k] = "renameOutputFile"
        /\ commits = <<[job |-> j, ctx |-> ctx[j]]>>
        /\ FinalFile # Absent
        /\ files[TempPath(tempFile[k])] = Absent

\* C20: every error a job reports is one of the two stage tags; the build
\* tag "compileSync" is reported only by a job that did not commit and whose
\* process failed to start, exited non-zero, was killed, or whose context was
\* ended; the commit tag "renameOutputFile" is reported only by a job whose
\* process exited with status 0 and whose rename failed; and a job whose
\* process did not succeed always reports the build tag.
C20_ErrorsCarryStageTag ==
    \A j \in Jobs :
        /\ result[j] \in {"none", "nil"} \cup Errors
        /\ Delivered(j) \in {"none", result[j]}
        /\ Delivered(j) = "compileSync" =>
              /\ proc[j] \in {"none", "exitErr", "killed"} \/ ctx[j] = "done"
              /\ ~Committed(j)
        /\ Delivered(j) = "renameOutputFile" =>
              /\ proc[j] = "exit0"
              /\ ~Committed(j)
        /\ (Delivered(j) # "none" /\ proc[j] \in {"none", "exitErr", "killed"})
              => Delivered(j) = "compileSync"

\* One job reported a build failure after its process was killed, another a
\* commit failure after its process succeeded.
C20_Witness ==
    \E j, k \in Jobs :
        /\ Delivered(j) = "compileSync" /\ proc[j] = "killed"
        /\ Delivered(k) = "renameOutputFile" /\ proc[k] = "exit0"

C22_SecondRunSameContent ==
    \A j \in Jobs :
        (/\ j > 1 /\ LatestJob(j)
         /\ Terminal(j - 1) /\ Terminal(j)
         /\ result[j - 1] = "nil" /\ result[j] = "nil"
         /\ content[j - 1] = content[j]) =>
            /\ finalAtTrigger[j] = Written(j - 1, TRUE)
            /\ FinalFile # Absent
            /\ FileContent(FinalFile) = FileContent(finalAtTrigger[j])

C22_Witness ==
    /\ Terminal(1) /\ Terminal(2)
    /\ result[1] = "nil" /\ result[2] = "nil"
    /\ content[1] = content[2]
    /\ tempFile[1] # tempFile[2]
    /\ FinalFile = Written(2, TRUE)
    /\ FileContent(FinalFile) = FileContent(finalAtTrigger[2])

\* C23 (as stated): for arguments with no token starting with "-X", a nil
\* supplier included, BuildArguments returns "build", the arguments in their
\* order, "-o", the temp path and the entry point, and the command holds no
\* token starting with "-ldflags=".
C23_NoLdFlagsTokenAtAll ==
    (Called /\ \A i \in 1..Len(SuppliedArgs) :
                   ~HasPrefix(SuppliedArgs[i], DashX)) =>
        /\ builtArgs = <<Build>> \o SuppliedArgs \o OutputTail(outTempFileName)
        /\ LdFlagsAt(builtArgs) = {}

\* C23: for arguments with no token starting with "-X", a nil supplier
\* included, BuildArguments returns "build", the arguments in their order,
\* "-o", the temp path and the entry point; no "-ldflags=" token is added:
\* the only ones in the command are those of the arguments themselves.
C23_NoLinkerFlagPassesThrough ==
    (Called /\ \A i \in 1..Len(SuppliedArgs) :
                   ~HasPrefix(SuppliedArgs[i], DashX)) =>
        /\ builtArgs = <<Build>> \o SuppliedArgs \o OutputTail(outTempFileName)
        /\ LdFlagsAt(builtArgs) = {i + 1 : i \in LdFlagsAt(SuppliedArgs)}

C23_Witness ==
    /\ Called
    /\ Len(SuppliedArgs) = MaxArgs
    /\ \A i \in 1..Len(SuppliedArgs) : ~HasPrefix(SuppliedArgs[i], DashX)
    /\ LdFlagsAt(SuppliedArgs) = {}
    /\ outFolder = <<"o", "u", "t">>
    /\ builtArgs[Len(builtArgs) - 1] =
          <<"o", "u", "t", "/", "a", "p", "p", "_", "t", "e", "m", "p">>
          \o extension

\* C24: for arguments with at least one linker-symbol flag, in either form,
\* the command BuildArguments returns holds exactly one token starting with
\* "-ldflags=", its value is the linker-symbol entries joined by single
\* spaces in their order, and it stands immediately before "-o".
C24_OneConsolidatedLdFlags ==
    (Called /\ LinkerEntries(SuppliedArgs) # <<>>) =>
        /\ LdFlagsAt(builtArgs) = {Len(builtArgs) - 3}
        /\ builtArgs[Len(builtArgs) - 3] =
              LdFlagsEq \o Join(LinkerEntries(SuppliedArgs), Space)
        /\ builtArgs[Len(builtArgs) - 2] = DashO

\* C25: every command BuildArguments returns is "build", then the tokens that
\* are not linker-symbol entries, each once and in their order, then the
\* consolidated flag when there is a linker-symbol entry, then "-o", the temp
\* path and the entry point; every token of the arguments is in exactly one
\* of the two groups.
C25_FixedShape ==
    Called =>
        /\ builtArgs =
              <<Build>> \o NonLinkerTokens(SuppliedArgs)
              \o (IF LinkerEntries(SuppliedArgs) # <<>>
                  THEN <<LdFlagsEq \o Join(LinkerEntries(SuppliedArgs), Space)>>
                  ELSE <<>>)
              \o OutputTail(outTempFileName)
        /\ Len(NonLinkerTokens(SuppliedArgs)) + Len(LinkerEntries(SuppliedArgs))
              = Len(SuppliedArgs)
        /\ builtArgs[1] = Build
        /\ SubSeq(builtArgs, Len(builtArgs) - 2, Len(builtArgs))
              = OutputTail(outTempFileName)

C25_Witness ==
    /\ Called
    /\ SuppliedArgs = << <<"-", "v">>, DashX, <<"-", "v">> >>
    /\ builtArgs = <<Build, <<"-", "v">>,
                     LdFlagsEq \o <<"-", "X", " ", "-", "v">>>>
                   \o OutputTail(outTempFileName)

\* C26: with an extra-args supplier, every job invokes it exactly once, when
\* its compileSync builds the command line (none before, never a second
\* time), and the command line of the job is the one the argument rules give
\* for the value this invocation returned.
C26_SupplierOncePerJob ==
    argsSupplier # {} =>
        \A j \in Jobs :
            /\ supplierCalls[j] = IF ArgsBuilt(j) THEN 1 ELSE 0
            /\ ArgsBuilt(j) =>
                  /\ supplied[j] \in argsSupplier
                  /\ cmdArgs[j] =
                        CommandOf(supplied[j],
                                  TempFileString(outName, tempFile[j],
                                                 extension))

C26_Witness ==
    /\ Terminal(1) /\ Terminal(2)
    /\ supplierCalls = <<1, 1>>
    /\ supplied[1] = << DashX, <<"k", "=", "v">> >>
    /\ supplied[2] = << <<"-", "v">> >>
    /\ cmdArgs[1][2] = LdFlagsEq \o <<"-", "X", " ", "k", "=", "v">>
    /\ cmdArgs[2][2] = <<"-", "v">>

\* C27: in every state, before, during and after the jobs, UnobservedFiles
\* returns two names: OutName followed by Extension, then OutName followed
\* by "_temp" and Extension.
C27_UnobservedFilesFixed ==
    /\ Len(UnobservedFiles) = 2
    /\ UnobservedFiles[1] = outName \o extension
    /\ UnobservedFiles[2] = outName \o <<"_", "t", "e", "m", "p">> \o extension

C27_Witness ==
    /\ Terminal(1)
    /\ pc[2] = "wait" /\ files[TempPath(tempFile[2])] # Absent
    /\ UnobservedFiles =
          << <<"a", "p", "p", ".", "e", "x", "e">>,
             <<"a", "p", "p", "_", "t", "e", "m", "p", ".", "e", "x", "e">> >>

\* C28: every temp file present in the output directory has a name that is
\* one of the names UnobservedFiles returns.
C28_TempFilesUnobserved ==
    \A t \in TempFilesLeft :
        \E i \in 1..Len(UnobservedFiles) :
            UnobservedFiles[i] = TempFileString(outName, t, extension)

\* C29: the deadline of the instance is 5 when the configured Timeout is
\* zero and the configured Timeout otherwise, and every job created has this
\* value as the deadline of its context.
C29_DeadlineFromTimeout ==
    /\ timeout = IF cfgTimeout = 0 THEN DefaultTimeout ELSE cfgTimeout
    /\ \A j \in Jobs :
          Created(j) =>
              deadline[j] = IF cfgTimeout = 0 THEN DefaultTimeout
                            ELSE cfgTimeout

C29_Witness ==
    /\ cfgTimeout = 3
    /\ Terminal(1) /\ Created(2)
    /\ deadline = <<3, 3>>

\* C30: a job never starts its compiler process a second time and, once
\* its compileSync has begun, never goes back to being created or to
\* building and starting a command; the result it has reached, a failure
\* included, stays; the only step that creates a job is the one of the next
\* CompileProgram call.
C30_NoRetry ==
    [][\A j \in Jobs :
          /\ startCount'[j] <= 1
          /\ ArgsBuilt(j) =>
                /\ ArgsBuilt(j)'
                /\ startCount'[j] = startCount[j]
                /\ supplierCalls'[j] = supplierCalls[j]
          /\ result[j] \in Errors => result'[j] = result[j]
          /\ (Created(j)' /\ ~Created(j)) => (j = nTrig /\ pc[j] = "create")
      ]_vars

C30_Witness ==
    /\ nTrig = 1
    /\ Terminal(1)
    /\ result[1] = "compileSync"
    /\ startCount[1] = 1
    /\ proc[1] = "exitErr"

\* C31: the context of a job is ended only by the critical section of a
\* later CompileProgram call, by Cancel or by the job's own deadline; and the
\* job of the last call, when its context was never ended and its compiler
\* process exited with status 0 (destination usable), has committed its
\* artifact and ended without error.
C31_NewestTriggerWins ==
    [][\A j \in Jobs :
          /\ (ctx[j] = "live" /\ ctx'[j] # "live") =>
                \/ \E k \in Jobs : k > j /\ CompileLock(k)
                \/ Cancel
                \/ DeadlineExpire(j)
          /\ (/\ LatestJob(j)' /\ Terminal(j)'
              /\ ctx'[j] = "live" /\ proc'[j] = "exit0"
              /\ config.command = "compiler" /\ config.destOK) =>
                (result'[j] = "nil" /\ Committed(j)')
      ]_vars

\* C32: the active slot changes only in a step of the thread that holds the
\* lock or takes and releases it within the step, never while another
\* thread holds it; the lock is held only by a call that is between its
\* Lock and Unlock at the head of CompileProgram, which can release it at
\* once, never by a job that is starting or awaiting its process, renaming
\* or deleting its temp artifact or running the callback; so while a build
\* is in progress and the lock is free, Cancel and the next CompileProgram
\* can enter.
C32_LockOnlyAroundActive ==
    /\ [](/\ mu # NoJob => (pc[mu] = "create" /\ ENABLED CreateJob(mu))
          /\ \A j \in Jobs :
                (InCompileSync(j) \/ pc[j] = "deliver") => mu # j
          /\ mu = NoJob =>
                /\ ENABLED Cancel
                /\ nTrig < MaxCalls => ENABLED CompileLock(nTrig + 1))
    /\ [][active' # active => (mu = NoJob \/ mu' = NoJob)]_vars

C32_Witness ==
    /\ mu = 2
    /\ pc[1] = "wait" /\ proc[1] \in Running
    /\ active = NoJob

C34_ConcurrentProcessesApart ==
    \A j, k \in Jobs :
        (j # k /\ proc[j] \in Running /\ proc[k] \in Running) =>
            TempPath(tempFile[j]) # TempPath(tempFile[k])

\* C35: the clean-up of a finishing job empties the active slot when the
\* slot holds that job and leaves it as it is otherwise; a job recorded as
\* active stops being recorded only by its own clean-up, by the critical
\* section of a later CompileProgram call or by Cancel.
C35_ClearsOnlyOwnRecord ==
    [][\A j \in Jobs :
          /\ (pc[j] = "clear" /\ pc'[j] = "done") =>
                active' = IF active = j THEN NoJob ELSE active
          /\ (active = j /\ active' # j) =>
                \/ pc[j] = "clear" /\ pc'[j] = "done"
                \/ \E k \in Jobs : k > j /\ CompileLock(k)
                \/ Cancel
      ]_vars

C35_Witness ==
    /\ Terminal(1) /\ ctx[1] = "done"
    /\ active = 2
    /\ pc[2] = "wait" /\ proc[2] \in Running /\ ctx[2] = "live"

\* C36: a job that is created, unfinished and whose context has not been
\* ended is the job recorded in the active slot, so there is at most one;
\* every other unfinished job has had its context ended.
C36_OneLiveJobAndItIsActive ==
    /\ \A j \in Jobs :
          (Created(j) /\ ~Terminal(j) /\ ctx[j] = "live") => active = j
    /\ Cardinality({j \in Jobs : Created(j) /\ ~Terminal(j)
                                    /\ ctx[j] = "live"}) <= 1
    /\ \A j \in Jobs :
          (Created(j) /\ ~Terminal(j) /\ active # j) => ctx[j] = "done"

C36_Witness ==
    /\ pc[1] = "wait" /\ ctx[1] = "done"
    /\ pc[2] = "wait" /\ ctx[2] = "live"
    /\ active = 2

\* C37: the commits happen in the order of the triggers, and once every job
\* has finished the final artifact is the complete output of the job
\* triggered last among those that committed.
C37_CommitsInTriggerOrder ==
    /\ \A a, b \in 1..Len(commits) :
          a < b => commits[a].job < commits[b].job
    /\ (AllTerminal /\ commits # <<>>) =>
          \E j \in Jobs :
              /\ Committed(j)
              /\ \A k \in Jobs : Committed(k) => k <= j
              /\ FinalFile = Written(j, TRUE)

\* C38: while the callback of a job runs, that job does not hold the lock:
\* whoever holds it is a call that can release it at once, and when it is
\* free Cancel and the next CompileProgram can enter, so a call made by the
\* callback is never stuck; and once the clean-up of the finishing job has
\* run, a job that a callback triggered and that is unfinished and not
\* cancelled is still the job recorded as active.
C38_CallbackOutsideLock ==
    /\ \A j \in Jobs :
          CallbackRunning(j) =>
              /\ mu # j
              /\ mu # NoJob => (pc[mu] = "create" /\ ENABLED CreateJob(mu))
              /\ mu = NoJob =>
                    /\ ENABLED CancelInCallback
                    /\ nTrig < MaxCalls =>
                          ENABLED CompileLockInCallback(nTrig + 1)
    /\ \A j, k \in Jobs :
          (/\ j < k /\ Terminal(j)
           /\ Created(k) /\ ~Terminal(k) /\ ctx[k] = "live") => active = k

C38_Witness ==
    /\ Terminal(1) /\ cbCount[1] = 1
    /\ Created(2) /\ pc[2] = "wait" /\ ctx[2] = "live"
    /\ active = 2

\* C39: with a callback, the callback of a job is invoked once its
\* compileSync has returned (the temp artifact renamed or deleted) and
\* before its clean-up of the active slot; when it is invoked with nil the
\* job has committed and the final artifact exists; and while the callback
\* of a job whose context has not been ended is pending or running, the job
\* is recorded as active, so IsCompiling returns true.
C39_CommitThenCallbackThenClear ==
    [][\A j \in Jobs :
          /\ cbCount'[j] # cbCount[j] =>
                /\ pc[j] = "deliver" /\ pc'[j] = "clear"
                /\ result[j] # "none" /\ cbArg'[j] = result[j]
                /\ result[j] = "nil" =>
                      (Committed(j) /\ FinalFile # Absent)
                /\ result[j] # "nil" => ~Committed(j)
                /\ ctx[j] = "live" => (active = j /\ IsCompiling)
          /\ (config.callback /\ pc[j] = "clear" /\ pc'[j] = "done") =>
                cbCount[j] = 1
          /\ (config.callback /\ pc'[j] = "deliver" /\ ctx'[j] = "live") =>
                (active' = j /\ IsCompiling')
      ]_vars

C39_Witness ==
    /\ config.callback
    /\ pc[1] = "clear" /\ cbCount[1] = 1 /\ cbArg[1] = "nil"
    /\ ctx[1] = "live" /\ active = 1 /\ IsCompiling
    /\ FinalFile = Written(1, TRUE)

\* C40 (as stated): the tokens diverted to the consolidated flag are those
\* that start with "-X" and those that stand immediately after a bare "-X".
C40_DivertedByNeighbour ==
    Called =>
        builtArgs =
            CommandDiverting(SuppliedArgs,
                {i \in 1..Len(SuppliedArgs) :
                    \/ HasPrefix(SuppliedArgs[i], DashX)
                    \/ i > 1 /\ SuppliedArgs[i - 1] = DashX},
                outTempFileName)

\* C40: the tokens diverted to the consolidated flag are those that start
\* with "-X" and those taken by a bare "-X" before them, a bare "-X" that
\* was itself taken by the one before it taking nothing; the token taken is
\* diverted whatever it is, and a bare "-X" in last position is diverted
\* alone.
C40_DivertedByPrefixOrTaken ==
    Called =>
        /\ builtArgs =
              CommandDiverting(SuppliedArgs,
                  {i \in 1..Len(SuppliedArgs) :
                      \/ HasPrefix(SuppliedArgs[i], DashX)
                      \/ IsPayload(SuppliedArgs, i)},
                  outTempFileName)
        /\ Len(builtArgs) =
              4 + Cardinality({i \in 1..Len(SuppliedArgs) :
                                  /\ ~HasPrefix(SuppliedArgs[i], DashX)
                                  /\ ~IsPayload(SuppliedArgs, i)})
                + (IF \E i \in 1..Len(SuppliedArgs) :
                          HasPrefix(SuppliedArgs[i], DashX)
                   THEN 1 ELSE 0)
        /\ (/\ Len(SuppliedArgs) > 0
            /\ SuppliedArgs[Len(SuppliedArgs)] = DashX
            /\ ~IsPayload(SuppliedArgs, Len(SuppliedArgs))) =>
              LET flag == builtArgs[Len(builtArgs) - 3]
              IN  SubSeq(flag, Len(flag) - 1, Len(flag)) = DashX

C40_Witness ==
    /\ Called
    /\ SuppliedArgs = << DashX, DashX, <<"k", "=", "v">> >>
    /\ builtArgs = <<Build, <<"k", "=", "v">>,
                     LdFlagsEq \o <<"-", "X", " ", "-", "X">>>>
                   \o OutputTail(outTempFileName)

====
